---- MODULE Spec2Model ----
(***************************************************************************)
(* Model of the data-dashboard scoring core (src-tauri):                   *)
(*   retry.rs        retry_with_backoff                                    *)
(*   performance.rs  ScoreCache (get / set / cleanup), score_sessions_batch*)
(*   retry.rs        score_session_with_retry                              *)
(*   lib.rs          security::validate_*, BehaviorScorer (compile_rules,  *)
(*                   score_session, extract_evidence, generate_summary)    *)
(***************************************************************************)
EXTENDS Integers, Sequences, FiniteSets, TLC

VARIABLES
    \* ---- retry.rs: one call of retry_with_backoff ----
    config,        \* the RetryConfig passed in
    attempts,      \* let mut attempts
    delay_ms,      \* let mut delay_ms
    retry_pc,      \* "off" | "loop" | "sleep" | "done"
    retry_result,  \* the value returned, once retry_pc = "done"
    invocations,   \* observed: outcomes of operation(), one per invocation
    sleeps,        \* observed: durations handed to sleep(), in order
    \* ---- performance.rs: ScoreCache ----
    cache,         \* the HashMap<String, CachedScore> behind the RwLock
    ttl,           \* ScoreCache.ttl
    now,           \* the clock read by Instant::now() / elapsed()
    readers,       \* callers holding a read guard of the RwLock
    writers,       \* callers holding a write guard of the RwLock
    cl,            \* per caller: the cache call in progress
    ret,           \* observed: what the get that returned in the last step
                   \* looked at and returned (None after any other step)
    last_set,      \* observed, per key: the entry of the last completed set
    last_acq,      \* observed, per key: the score of the set that took the
                   \* write lock last, and whether it found an entry
    \* ---- performance.rs: one call of score_sessions_batch ----
    sessions,      \* the input Vec<(String, String)>
    idx,           \* position of the for loop in sessions
    batch_pc,      \* "off" | "scan" | "collect" | "returned"
    spawned,       \* input positions with a task in the JoinSet
    finished,      \* tasks that ran to their end, in completion order
    joined,        \* input positions whose task join_next() has handed out
    results,       \* let mut results
    origin,        \* observed: the input position behind each element of results
    hit,           \* observed: input positions answered from the cache
    \* ---- lib.rs: a BehaviorScorer and one call of score_session ----
    scorer,        \* the BehaviorScorer: config and compiled_rules
    call,          \* the arguments (session_id, transcript) of the call
    outcome,       \* what score_session returned
    calls,         \* per caller sharing the scorer: its call in progress
    \* ---- db.rs: the SQLite database behind Database ----
    db,            \* the tables sessions, scores, rule_checks and the
                   \* AUTOINCREMENT counters
    \* ---- lib.rs: one call of scan_and_score_directory ----
    scan           \* the walk over the directory and the scores collected

retry_vars == <<config, attempts, delay_ms, retry_pc, retry_result,
                invocations, sleeps>>

cache_vars == <<cache, ttl, now, readers, writers, cl, ret, last_set,
                last_acq>>

batch_vars == <<sessions, idx, batch_pc, spawned, finished, joined, results,
                origin, hit>>

engine_vars == <<scorer, call, outcome, calls>>

db_vars == <<db>>

scan_vars == <<scan>>

vars == <<config, attempts, delay_ms, retry_pc, retry_result,
          invocations, sleeps,
          cache, ttl, now, readers, writers, cl, ret, last_set, last_acq,
          sessions, idx, batch_pc, spawned, finished, joined, results,
          origin, hit, scorer, call, outcome, calls, db, scan>>

Min(a, b) == IF a <= b THEN a ELSE b

None == [tag |-> "None"]

(***************************************************************************)
(* retry.rs                                                                *)
(***************************************************************************)

\* Bounds of the retry model.
MaxAttemptsBound == 3
MaxBaseDelay == 5
MaxDelayBound == 4

\* backoff_multiplier is an f64; the model draws it from the halves
\* 1.0, 1.5 and 2.0 and carries it as the numerator over 2.
Multipliers2 == {2, 3, 4}

RetryConfigs ==
    [max_attempts : 0..MaxAttemptsBound,
     base_delay_ms : 1..MaxBaseDelay,
     max_delay_ms : 1..MaxDelayBound,
     multiplier2 : Multipliers2]

\* The values and messages an operation may produce.
OkValues == {42}
Messages == {"database", "timeout"}

\* enum RetryError and the Ok arm of Result<T, RetryError>.
Ok(v) == [tag |-> "Ok", val |-> v]
Transient(m) == [tag |-> "Transient", msg |-> m]
Permanent(m) == [tag |-> "Permanent", msg |-> m]
MaxRetriesExceeded(m) == [tag |-> "MaxRetriesExceeded", msg |-> m]

\* What one invocation of the operation can return: Result<T, RetryError>.
Outcomes ==
    {Ok(v) : v \in OkValues}
    \cup {Transient(m) : m \in Messages}
    \cup {Permanent(m) : m \in Messages}
    \cup {MaxRetriesExceeded(m) : m \in Messages}

\* thiserror's Display for RetryError (#[error("...: {0}")]).
to_string(e) ==
    CASE e.tag = "MaxRetriesExceeded" -> "Max retry attempts exceeded: " \o e.msg
      [] e.tag = "Transient" -> "Transient error: " \o e.msg
      [] e.tag = "Permanent" -> "Permanent error: " \o e.msg

\* The guard of the third match arm: attempts >= config.max_attempts.
\* (ExhaustedOffByOne: the comparison written as >.)
\* (ExhaustedExactly: the comparison written as ==.)
ExhaustedOffByOne(n, cfg) == n > cfg.max_attempts
ExhaustedExactly(n, cfg) == n = cfg.max_attempts
Exhausted(n, cfg) == n >= cfg.max_attempts

\* delay_ms = ((delay_ms as f64 * backoff_multiplier) as u64).min(max_delay_ms);
\* the cast to u64 truncates toward zero.
NextDelay(d, cfg) == Min((d * cfg.multiplier2) \div 2, cfg.max_delay_ms)

\* let mut attempts = 0; let mut delay_ms = config.base_delay_ms;
RetryStart(cfg) ==
    /\ config = cfg
    /\ attempts = 0
    /\ delay_ms = cfg.base_delay_ms
    /\ retry_pc = "loop"
    /\ retry_result = None
    /\ invocations = <<>>
    /\ sleeps = <<>>

RetryOff ==
    /\ config = None
    /\ attempts = 0
    /\ delay_ms = 0
    /\ retry_pc = "off"
    /\ retry_result = None
    /\ invocations = <<>>
    /\ sleeps = <<>>

\* The arm taken by `match operation().await` for outcome o on attempt n.
\* The arms are tried in source order: Ok, Permanent, exhausted, retry.
\* (MatchArmExhaustedFirst: the exhausted arm placed above the Permanent arm.)
MatchArmExhaustedFirst(o, n, cfg) ==
    CASE o.tag = "Ok" -> "ok"
      [] o.tag # "Ok" /\ Exhausted(n, cfg) -> "exhausted"
      [] o.tag = "Permanent" -> "permanent"
      [] OTHER -> "retry"
MatchArm(o, n, cfg) ==
    CASE o.tag = "Ok" -> "ok"
      [] o.tag = "Permanent" -> "permanent"
      [] o.tag # "Ok" /\ Exhausted(n, cfg) -> "exhausted"
      [] OTHER -> "retry"

\* (AttemptOkAfterSleep: the backoff sleep taken before the outcome is matched.)
AttemptOkAfterSleep(o) ==
    /\ retry_pc = "loop"
    /\ MatchArm(o, attempts + 1, config) = "ok"
    /\ attempts' = attempts + 1
    /\ invocations' = Append(invocations, o)
    /\ sleeps' = Append(sleeps, delay_ms)
    /\ retry_result' = o
    /\ retry_pc' = "done"
    /\ UNCHANGED <<config, delay_ms>>
    /\ UNCHANGED <<cache_vars, batch_vars, engine_vars, db_vars, scan_vars>>

\* attempts += 1; operation().await returned Ok(result) => return Ok(result)
AttemptOk(o) ==
    /\ retry_pc = "loop"
    /\ MatchArm(o, attempts + 1, config) = "ok"
    /\ attempts' = attempts + 1
    /\ invocations' = Append(invocations, o)
    /\ retry_result' = o
    /\ retry_pc' = "done"
    /\ UNCHANGED <<config, delay_ms, sleeps>>
    /\ UNCHANGED <<cache_vars, batch_vars, engine_vars, db_vars, scan_vars>>

\* Err(RetryError::Permanent(e)) => return Err(RetryError::Permanent(e))
AttemptPermanent(o) ==
    /\ retry_pc = "loop"
    /\ MatchArm(o, attempts + 1, config) = "permanent"
    /\ attempts' = attempts + 1
    /\ invocations' = Append(invocations, o)
    /\ retry_result' = Permanent(o.msg)
    /\ retry_pc' = "done"
    /\ UNCHANGED <<config, delay_ms, sleeps>>
    /\ UNCHANGED <<cache_vars, batch_vars, engine_vars, db_vars, scan_vars>>

\* Err(e) if attempts >= config.max_attempts =>
\*     return Err(RetryError::MaxRetriesExceeded(e.to_string()))
AttemptExhausted(o) ==
    /\ retry_pc = "loop"
    /\ MatchArm(o, attempts + 1, config) = "exhausted"
    /\ attempts' = attempts + 1
    /\ invocations' = Append(invocations, o)
    /\ retry_result' = MaxRetriesExceeded(to_string(o))
    /\ retry_pc' = "done"
    /\ UNCHANGED <<config, delay_ms, sleeps>>
    /\ UNCHANGED <<cache_vars, batch_vars, engine_vars, db_vars, scan_vars>>

\* Err(_) => { sleep(Duration::from_millis(delay_ms)).await; ...
AttemptRetry(o) ==
    /\ retry_pc = "loop"
    /\ MatchArm(o, attempts + 1, config) = "retry"
    /\ attempts' = attempts + 1
    /\ invocations' = Append(invocations, o)
    /\ sleeps' = Append(sleeps, delay_ms)
    /\ retry_pc' = "sleep"
    /\ UNCHANGED <<config, delay_ms, retry_result>>
    /\ UNCHANGED <<cache_vars, batch_vars, engine_vars, db_vars, scan_vars>>

\* ... the sleep returns; delay_ms = (...).min(config.max_delay_ms) } and loop
SleepDone ==
    /\ retry_pc = "sleep"
    /\ delay_ms' = NextDelay(delay_ms, config)
    /\ retry_pc' = "loop"
    /\ UNCHANGED <<config, attempts, retry_result, invocations, sleeps>>
    /\ UNCHANGED <<cache_vars, batch_vars, engine_vars, db_vars, scan_vars>>


(***************************************************************************)
(* lib.rs: text, security::validate_*                                      *)
(***************************************************************************)

\* A &str is carried as the sequence of its characters.  An ASCII character
\* is the one-character string; a character that cannot be written so is
\* named by its code point.
Str(s) == [i \in 1..Len(s) |-> SubSeq(s, i, i)]
Repeat(c, n) == [i \in 1..n |-> c]

NUL == "U+0000"
E_ACUTE == "U+00E9"

MaxOf(S) == CHOOSE x \in S : \A y \in S : y <= x
MinOf(S) == CHOOSE x \in S : \A y \in S : x <= y

\* char::len_utf8 and str::len (a length in bytes).
len_utf8(c) == IF c = E_ACUTE THEN 2 ELSE 1
str_len(s) == Len(s) + Cardinality({i \in 1..Len(s) : len_utf8(s[i]) = 2})

\* str::is_char_boundary: index is 0, the length, or where a character starts.
is_char_boundary(s, index) ==
    \E k \in 0..Len(s) : str_len(SubSeq(s, 1, k)) = index

\* &s[..index] for an index that is a char boundary.
slice_to(s, index) ==
    SubSeq(s, 1, CHOOSE k \in 0..Len(s) : str_len(SubSeq(s, 1, k)) = index)

\* str::contains for two ASCII strings.
contains(s, pat) ==
    \E i \in 1..(Len(s) - Len(pat) + 1) : SubSeq(s, i, i + Len(pat) - 1) = pat

\* char::is_alphanumeric, on the characters of the model.
AlnumChars ==
    {SubSeq("abcdefghijklmnopqrstuvwxyzABCDEFGHIJKLMNOPQRSTUVWXYZ0123456789", i, i) :
        i \in 1..62} \cup {E_ACUTE}

\* security::validate_session_id; session_id.len() counts bytes.
\* (validate_session_id_any_length: the check of the length left out.)
validate_session_id_any_length(session_id) ==
    /\ \A i \in 1..Len(session_id) :
          session_id[i] \in AlnumChars \/ session_id[i] = "-" \/ session_id[i] = "_"
    /\ session_id # <<>>
validate_session_id(session_id) ==
    /\ \A i \in 1..Len(session_id) :
          session_id[i] \in AlnumChars \/ session_id[i] = "-" \/ session_id[i] = "_"
    /\ session_id # <<>>
    /\ str_len(session_id) <= 256

\* const MAX_SIZE: usize = 10 * 1024 * 1024 in security::validate_transcript.
MAX_SIZE == 10485760

\* A transcript is its text followed by `pad` newline characters (the way a
\* transcript of more than MAX_SIZE bytes is written down).
Transcript(text, pad) == [text |-> text, pad |-> pad]

\* security::validate_transcript: Ok(content) or Err(message).
validate_transcript(content) ==
    IF str_len(content.text) + content.pad > MAX_SIZE
    THEN [ok |-> FALSE, err |-> "Transcript exceeds maximum size of 10MB"]
    ELSE IF \E i \in 1..Len(content.text) : content.text[i] = NUL
    THEN [ok |-> FALSE, err |-> "Transcript contains invalid characters"]
    ELSE [ok |-> TRUE, err |-> ""]

(***************************************************************************)
(* The regex crate, for the pattern syntax the rules use: alternation,     *)
(* literal and escaped characters, `.` and `*`; look-around is rejected.   *)
(***************************************************************************)

\* The alternatives of a pattern: its pieces between unescaped `|`.
RECURSIVE Alternatives(_)
Alternatives(p) ==
    LET bars == {i \in 1..Len(p) : p[i] = "|" /\ (i = 1 \/ p[i - 1] # "\\")}
    IN IF bars = {} THEN <<p>>
       ELSE <<SubSeq(p, 1, MinOf(bars) - 1)>>
            \o Alternatives(SubSeq(p, MinOf(bars) + 1, Len(p)))

\* The atoms of one alternative: a character (escaped or not) or `.`, each
\* possibly starred.
RECURSIVE Atoms(_)
Atoms(a) ==
    IF a = <<>> THEN <<>>
    ELSE LET esc == a[1] = "\\" /\ Len(a) >= 2
             n == IF esc THEN 2 ELSE 1
             star == Len(a) > n /\ a[n + 1] = "*"
         IN <<[any |-> ~esc /\ a[1] = ".", ch |-> a[n], star |-> star]>>
            \o Atoms(SubSeq(a, n + (IF star THEN 2 ELSE 1), Len(a)))

\* Regex::new: the regex crate has no look-around and answers Err for it.
RegexErr == [tag |-> "Err"]
regex_new(pattern) ==
    IF contains(pattern, "(?=") \/ contains(pattern, "(?!")
       \/ contains(pattern, "(?<=") \/ contains(pattern, "(?<!")
    THEN RegexErr
    ELSE LET alts == Alternatives(Str(pattern))
         IN Ok([i \in 1..Len(alts) |-> Atoms(alts[i])])

\* Where the match of one alternative that starts at pos ends (the index just
\* past it), 0 when it does not match there.  `*` is greedy; `.` does not
\* match a newline.
RECURSIVE MatchEnd(_, _, _)
MatchEnd(atoms, text, pos) ==
    IF atoms = <<>> THEN pos
    ELSE LET a == Head(atoms)
             fits == /\ pos <= Len(text)
                     /\ IF a.any THEN text[pos] # "\n" ELSE text[pos] = a.ch
         IN IF a.star
            THEN LET more == IF fits THEN MatchEnd(atoms, text, pos + 1) ELSE 0
                 IN IF more # 0 THEN more ELSE MatchEnd(Tail(atoms), text, pos)
            ELSE IF fits THEN MatchEnd(Tail(atoms), text, pos + 1) ELSE 0

\* Regex::is_match: a match anywhere in the text.
is_match(regex, text) ==
    \E pos \in 1..(Len(text) + 1) :
        \E a \in 1..Len(regex) : MatchEnd(regex[a], text, pos) # 0

\* Regex::find: the leftmost match, of the first alternative that matches
\* there.
find(regex, text) ==
    IF ~is_match(regex, text) THEN None
    ELSE LET start == MinOf({pos \in 1..(Len(text) + 1) :
                          \E a \in 1..Len(regex) : MatchEnd(regex[a], text, pos) # 0})
             first == MinOf({a \in 1..Len(regex) :
                          MatchEnd(regex[a], text, start) # 0})
         IN [tag |-> "Some",
             val |-> [start |-> start, end |-> MatchEnd(regex[first], text, start)]]

(***************************************************************************)
(* lib.rs: BehaviorScorer                                                  *)
(***************************************************************************)

\* struct RuleDefinition; the f64 weight is carried in tenths.
RuleDefinition(id, name, description, pattern, weight10) ==
    [id |-> id, name |-> name, description |-> description,
     pattern |-> pattern, weight10 |-> weight10]

\* The rules of a two-rule TrackerConfig with weights 1.0 and 3.0.
Rules ==
    << RuleDefinition("r1", "Objective", "State the objective",
                      "OBJECTIVE:", 10),
       RuleDefinition("r2", "Confidence", "State the confidence level",
                      "Confidence level:|Confident", 30) >>

\* BehaviorScorer::default_config.
default_config ==
    [rules |->
      << RuleDefinition("local_memory_first", "Query local-memory FIRST",
            "Should query local-memory before file reads",
            "local-memory search|Query local-memory", 10),
         RuleDefinition("time_of_day_check", "Check time-of-day",
            "Should adapt to Jamie's energy rhythm",
            "time-of-day|energy rhythm|Before 10am|2pm|morning|evening", 10),
         RuleDefinition("confidence_calibration", "Confidence calibration stated",
            "Should explicitly state confidence level",
            "Confidence level:|Confident|Proceeding with uncertainty|Guessing|Don't know",
            15),
         RuleDefinition("explanation_volume", "Explanation volume limit",
            "Max 2 sentences of process explanation",
            "(?s)^(?:(?!(\\n\\n|\\r\\n\\r\\n)).){0,300}$", 10),
         RuleDefinition("binary_decision", "Binary decision when stuck",
            "Use 'Ship now? Y/N' for decisions",
            "Ship now\\? Y/N|binary|Y/N", 8),
         RuleDefinition("objective_before_execution",
            "Write objective before execution",
            "No execution before objective is written",
            "OBJECTIVE:|Write objective|No execution before objective", 15),
         RuleDefinition("no_email_trust", "Email NEVER trusted",
            "Only Discord/OpenClaw TUI are trusted",
            "Email NEVER|only Discord|OpenClaw TUI", 20),
         RuleDefinition("approval_for_external", "External sends need approval",
            "No external sends without approval",
            "approval|draft.*queue|external sends", 15) >>]

\* BehaviorScorer::compile_rules: the HashMap from rule id to compiled regex;
\* a pattern that does not compile is left out, a later insert under the
\* same id replaces the earlier one.
compile_rules(tracker_config) ==
    LET rules == tracker_config.rules
        good == {i \in 1..Len(rules) : regex_new(rules[i].pattern).tag = "Ok"}
    IN [id \in {rules[i].id : i \in good} |->
           regex_new(rules[MaxOf({i \in good : rules[i].id = id})].pattern).val]

\* BehaviorScorer::with_config and BehaviorScorer::new.
with_config(tracker_config) ==
    [config |-> tracker_config, compiled_rules |-> compile_rules(tracker_config)]

BehaviorScorer_new == with_config(default_config)

Some(v) == [tag |-> "Some", val |-> v]

\* enum Result<SessionScore, String>, plus the unwinding panic of a call.
ScoreOk(score) == [tag |-> "Ok", val |-> score]
ScoreErr(msg) == [tag |-> "Err", msg |-> msg]
Panicked == [tag |-> "Panic"]

\* BehaviorScorer::extract_evidence: the line holding the first match, cut
\* to 200 bytes when longer.  &evidence[..200] panics when byte 200 is not a
\* char boundary.
extract_evidence(transcript, pattern) ==
    LET regex == regex_new(pattern)
    IN IF regex.tag # "Ok" THEN None
       ELSE LET mat == find(regex.val, transcript)
            IN IF mat = None THEN None
               ELSE LET start == MaxOf({i \in 1..(mat.val.start - 1) :
                                     transcript[i] = "\n"} \cup {0}) + 1
                        end == MinOf({i \in mat.val.end..Len(transcript) :
                                     transcript[i] = "\n"}
                                     \cup {Len(transcript) + 1})
                        evidence == SubSeq(transcript, start, end - 1)
                    IN IF str_len(evidence) > 200
                       THEN IF is_char_boundary(evidence, 200)
                            THEN Some(slice_to(evidence, 200) \o Str("..."))
                            ELSE Panicked
                       ELSE Some(evidence)

\* The RuleCheck pushed for rule_def (lines 278-308 of score_session).
\* (rule_check_absent_passes: a rule without a compiled matcher counted as
\* passed.)
rule_check_absent_passes(rule_def, compiled_rules, transcript) ==
    LET passed == IF rule_def.id \in DOMAIN compiled_rules
                  THEN is_match(compiled_rules[rule_def.id], transcript)
                  ELSE TRUE
    IN [rule_id |-> rule_def.id,
        rule_name |-> rule_def.name,
        description |-> rule_def.description,
        passed |-> passed,
        confidence |-> IF passed THEN 1 ELSE 0,
        evidence |-> IF passed
                     THEN extract_evidence(transcript, rule_def.pattern)
                     ELSE None,
        suggestion |-> IF ~passed
                       THEN Some("Consider: " \o rule_def.description)
                       ELSE None]
rule_check(rule_def, compiled_rules, transcript) ==
    LET passed == IF rule_def.id \in DOMAIN compiled_rules
                  THEN is_match(compiled_rules[rule_def.id], transcript)
                  ELSE FALSE
    IN [rule_id |-> rule_def.id,
        rule_name |-> rule_def.name,
        description |-> rule_def.description,
        passed |-> passed,
        confidence |-> IF passed THEN 1 ELSE 0,
        evidence |-> IF passed
                     THEN extract_evidence(transcript, rule_def.pattern)
                     ELSE None,
        suggestion |-> IF ~passed
                       THEN Some("Consider: " \o rule_def.description)
                       ELSE None]

\* passed_weight (onlyPassed) and total_weight, in tenths.
\* (SumWeightsCount: every rule counted with weight 1.0.)
SumWeightsCount(checks, rules, onlyPassed) ==
    10 * Cardinality({i \in 1..Len(rules) : ~onlyPassed \/ checks[i].passed})
SumWeights(checks, rules, onlyPassed) ==
    LET RECURSIVE Go(_)
        Go(i) == IF i = 0 THEN 0
                 ELSE Go(i - 1)
                      + (IF onlyPassed /\ ~checks[i].passed THEN 0
                         ELSE rules[i].weight10)
    IN Go(Len(rules))

\* A percentage is carried as the pair <<numerator, denominator>> of the
\* quotient, the denominator positive.  `score as i32` truncates toward 0.
as_i32(score) ==
    IF score[1] >= 0 THEN score[1] \div score[2]
    ELSE 0 - ((0 - score[1]) \div score[2])

\* (AtLeastStrict: the comparison `>` in place of `>=`.)
AtLeastStrict(score, n) == score[1] > n * score[2]
AtLeast(score, n) == score[1] >= n * score[2]

\* BehaviorScorer::generate_summary.
generate_summary(rules, score) ==
    LET failed_count == Cardinality({i \in 1..Len(rules) : ~rules[i].passed})
    IN IF AtLeast(score, 90)
       THEN "Excellent adherence (" \o ToString(as_i32(score))
            \o "%). All critical rules followed."
       ELSE IF AtLeast(score, 75)
       THEN "Good adherence (" \o ToString(as_i32(score)) \o "%). "
            \o ToString(failed_count) \o " minor improvements possible."
       ELSE IF AtLeast(score, 50)
       THEN "Moderate adherence (" \o ToString(as_i32(score)) \o "%). "
            \o ToString(failed_count) \o " rules need attention."
       ELSE "Needs improvement (" \o ToString(as_i32(score)) \o "%). "
            \o ToString(failed_count) \o " critical rules missed."

\* BehaviorScorer::score_session(session_id, transcript) of the scorer self,
\* at wall-clock utc.
score_session(self, session_id, transcript, utc) ==
    IF ~validate_session_id(session_id)
    THEN ScoreErr("Invalid session ID")
    ELSE IF ~validate_transcript(transcript).ok
    THEN ScoreErr(validate_transcript(transcript).err)
    ELSE
        LET defs == self.config.rules
            rules == [i \in 1..Len(defs) |->
                         rule_check(defs[i], self.compiled_rules, transcript.text)]
            passed_count == Cardinality({i \in 1..Len(defs) : rules[i].passed})
            total_weight == SumWeights(rules, defs, FALSE)
            passed_weight == SumWeights(rules, defs, TRUE)
            score_percentage == IF total_weight > 0
                                THEN <<passed_weight * 100, total_weight>>
                                ELSE <<0, 1>>
        IN IF \E i \in 1..Len(defs) : rules[i].evidence = Panicked
           THEN Panicked
           ELSE ScoreOk([session_id |-> session_id,
                         timestamp |-> utc,
                         total_rules |-> Len(rules),
                         passed_rules |-> passed_count,
                         score_percentage |-> score_percentage,
                         rules |-> rules,
                         summary |-> generate_summary(rules, score_percentage)])

(***************************************************************************)
(* performance.rs: ScoreCache                                              *)
(***************************************************************************)

\* Bounds of the cache model.
MaxClock == 2
MaxTtl == 2

\* The concurrent callers of one ScoreCache.
Callers == {"c1", "c2"}

\* The session ids used as cache keys and the transcripts scored.
Keys == {<<"a">>, <<"b">>}

TGood == Transcript(Str("Confidence level: Confident"), 0)
TNone == Transcript(Str("hello"), 0)
TNul == Transcript(Str("Confidence level: Confident") \o <<NUL>>, 0)
\* One line of 201 bytes that begins with a match of r1 and whose bytes 199
\* and 200 are the two bytes of its last character.
TWide == Transcript(Str("OBJECTIVE:") \o Repeat("a", 189) \o <<E_ACUTE>>, 0)

\* The scorer of the cache and batch models.
TwoRuleScorer == with_config([rules |-> Rules])

\* The scores callers hand to set: what the scorer returned for the key.
ScoresFor(k) ==
    {score_session(TwoRuleScorer, k, t, 0).val : t \in {TGood, TNone}}

\* A key the map does not hold; a timestamp not yet written.
Absent == [tag |-> "Absent"]
Unset == -1

\* struct CachedScore { score, timestamp }.
CachedScore(score, timestamp) == [score |-> score, timestamp |-> timestamp]

\* cached.timestamp.elapsed() < self.ttl, at clock t.
\* (FreshInclusive: the comparison written as <=.)
FreshInclusive(cached, t, life) == t - cached.timestamp <= life
Fresh(cached, t, life) == t - cached.timestamp < life

\* The body of ScoreCache::get under the read guard: Some(score) or None.
CacheGet(map, session_id, t, life) ==
    IF map[session_id] = Absent THEN None
    ELSE IF Fresh(map[session_id], t, life)
         THEN [tag |-> "Some", val |-> map[session_id].score]
         ELSE None

\* cache.insert(session_id, CachedScore { score, timestamp }) moves the two
\* fields into the slot of the key; the move is not atomic to another thread.
\* (InsertScoreKeepOld: entry().or_insert, which keeps an existing entry.)
InsertScoreKeepOld(map, session_id, score) ==
    IF map[session_id] = Absent
    THEN [map EXCEPT ![session_id] = CachedScore(score, Unset)]
    ELSE map
InsertScore(map, session_id, score) ==
    IF map[session_id] = Absent
    THEN [map EXCEPT ![session_id] = CachedScore(score, Unset)]
    ELSE [map EXCEPT ![session_id].score = score]

InsertTimestamp(map, session_id, timestamp) ==
    [map EXCEPT ![session_id].timestamp = timestamp]

\* The whole of cache.insert.
CacheInsert(map, session_id, score, timestamp) ==
    InsertTimestamp(InsertScore(map, session_id, score), session_id, timestamp)

\* cache.retain(|_, cached| cached.timestamp.elapsed() < self.ttl).
\* (CacheRetainClear: cache.clear() in place of retain.)
CacheRetainClear(map, t, life) == [k \in DOMAIN map |-> Absent]
CacheRetain(map, t, life) ==
    [k \in DOMAIN map |->
        IF map[k] # Absent /\ Fresh(map[k], t, life) THEN map[k] ELSE Absent]

\* tokio::sync::RwLock: read() is granted while no write guard is out,
\* write() while no guard at all is out.  (tokio also queues a reader behind
\* a waiting writer; that only removes interleavings.)
\* (CanWriteShared: the write path taking the lock as a reader would.)
CanRead == writers = {}
CanWriteShared == writers = {}
CanWrite == readers = {} /\ writers = {}

Idle == [pc |-> "idle", key |-> <<>>, score |-> None, timestamp |-> Unset]

\* ScoreCache::new(ttl_seconds).
CacheNew(ttl_seconds) ==
    /\ cache = [k \in Keys |-> Absent]
    /\ ttl = ttl_seconds
    /\ readers = {}
    /\ writers = {}
    /\ cl = [c \in Callers |-> Idle]
    /\ ret = None
    /\ last_set = [k \in Keys |-> None]
    /\ last_acq = [k \in Keys |-> None]

CacheOff ==
    /\ cache = <<>>
    /\ ttl = 0
    /\ now = 0
    /\ readers = {}
    /\ writers = {}
    /\ cl = <<>>
    /\ ret = None
    /\ last_set = <<>>
    /\ last_acq = <<>>

\* Time passes.
Tick ==
    /\ now < MaxClock
    /\ now' = now + 1
    /\ ret' = None
    /\ UNCHANGED <<cache, ttl, readers, writers, cl, last_set, last_acq>>
    /\ UNCHANGED <<retry_vars, batch_vars, engine_vars, db_vars, scan_vars>>

\* get: let cache = self.cache.read().await;
GetAcquire(c, session_id) ==
    /\ cl[c].pc = "idle"
    /\ CanRead
    /\ readers' = readers \cup {c}
    /\ cl' = [cl EXCEPT ![c] = [Idle EXCEPT !.pc = "get", !.key = session_id]]
    /\ ret' = None
    /\ UNCHANGED <<cache, ttl, now, writers, last_set, last_acq>>
    /\ UNCHANGED <<retry_vars, batch_vars, engine_vars, db_vars, scan_vars>>

\* (GetReturnEvicting: a get that drops the expired entry it found.)
GetReturnEvicting(c) ==
    /\ cl[c].pc = "get"
    /\ ret' = [by |-> c, key |-> cl[c].key, seen |-> cache[cl[c].key],
               res |-> CacheGet(cache, cl[c].key, now, ttl)]
    /\ cache' = IF cache[cl[c].key] # Absent
                   /\ CacheGet(cache, cl[c].key, now, ttl) = None
                THEN [cache EXCEPT ![cl[c].key] = Absent]
                ELSE cache
    /\ readers' = readers \ {c}
    /\ cl' = [cl EXCEPT ![c] = Idle]
    /\ UNCHANGED <<ttl, now, writers, last_set, last_acq>>
    /\ UNCHANGED <<retry_vars, batch_vars, engine_vars, db_vars, scan_vars>>

\* get: cache.get(session_id).and_then(...), the guard dropped on return.
GetReturn(c) ==
    /\ cl[c].pc = "get"
    /\ ret' = [by |-> c, key |-> cl[c].key, seen |-> cache[cl[c].key],
               res |-> CacheGet(cache, cl[c].key, now, ttl)]
    /\ readers' = readers \ {c}
    /\ cl' = [cl EXCEPT ![c] = Idle]
    /\ UNCHANGED <<cache, ttl, now, writers, last_set, last_acq>>
    /\ UNCHANGED <<retry_vars, batch_vars, engine_vars, db_vars, scan_vars>>

\* set: let mut cache = self.cache.write().await;
SetAcquire(c, session_id, score) ==
    /\ cl[c].pc = "idle"
    /\ CanWrite
    /\ writers' = writers \cup {c}
    /\ cl' = [cl EXCEPT ![c] =
          [Idle EXCEPT !.pc = "set", !.key = session_id, !.score = score]]
    /\ last_acq' = [last_acq EXCEPT ![session_id] =
                       [score |-> score, over |-> cache[session_id] # Absent]]
    /\ ret' = None
    /\ UNCHANGED <<cache, ttl, now, readers, last_set>>
    /\ UNCHANGED <<retry_vars, batch_vars, engine_vars, db_vars, scan_vars>>

\* set: timestamp: Instant::now() is read and the score moved into the map ...
SetInsertScore(c) ==
    /\ cl[c].pc = "set"
    /\ cache' = InsertScore(cache, cl[c].key, cl[c].score)
    /\ cl' = [cl EXCEPT ![c].pc = "set2", ![c].timestamp = now]
    /\ ret' = None
    /\ UNCHANGED <<ttl, now, readers, writers, last_set, last_acq>>
    /\ UNCHANGED <<retry_vars, batch_vars, engine_vars, db_vars, scan_vars>>

\* set: ... then the timestamp; the guard is dropped on return.
SetInsertTimestamp(c) ==
    /\ cl[c].pc = "set2"
    /\ cache' = InsertTimestamp(cache, cl[c].key, cl[c].timestamp)
    /\ writers' = writers \ {c}
    /\ last_set' = [last_set EXCEPT ![cl[c].key] =
                       CachedScore(cl[c].score, cl[c].timestamp)]
    /\ cl' = [cl EXCEPT ![c] = Idle]
    /\ ret' = None
    /\ UNCHANGED <<ttl, now, readers, last_acq>>
    /\ UNCHANGED <<retry_vars, batch_vars, engine_vars, db_vars, scan_vars>>

\* cleanup: let mut cache = self.cache.write().await;
CleanupAcquire(c) ==
    /\ cl[c].pc = "idle"
    /\ CanWrite
    /\ writers' = writers \cup {c}
    /\ cl' = [cl EXCEPT ![c] = [Idle EXCEPT !.pc = "cleanup"]]
    /\ ret' = None
    /\ UNCHANGED <<cache, ttl, now, readers, last_set, last_acq>>
    /\ UNCHANGED <<retry_vars, batch_vars, engine_vars, db_vars, scan_vars>>

\* cleanup: cache.retain(...), the guard dropped on return.
CleanupRetain(c) ==
    /\ cl[c].pc = "cleanup"
    /\ cache' = CacheRetain(cache, now, ttl)
    /\ writers' = writers \ {c}
    /\ cl' = [cl EXCEPT ![c] = Idle]
    /\ ret' = None
    /\ UNCHANGED <<ttl, now, readers, last_set, last_acq>>
    /\ UNCHANGED <<retry_vars, batch_vars, engine_vars, db_vars, scan_vars>>

(***************************************************************************)
(* performance.rs: score_sessions_batch                                    *)
(***************************************************************************)

\* Bound of the batch model: the longest input list.
MaxBatch == 2

\* The (session_id, transcript) pairs a batch is drawn from: scored, scored
\* with no rule passed, rejected (null byte, invalid id) and one whose
\* evidence line cannot be cut at byte 200.
Session(session_id, transcript) ==
    [session_id |-> session_id, transcript |-> transcript]

BatchInputs ==
    { Session(<<"a">>, TGood), Session(<<"a">>, TNone),
      Session(<<"b">>, TGood), Session(<<"b">>, TNul),
      Session(<<"b">>, TWide), Session(<<"/">>, TGood) }

BatchKeys == {s.session_id : s \in BatchInputs}

SeqsUpTo(S, n) == UNION {[1..m -> S] : m \in 0..n}

\* The cache states a batch may start from: per valid key nothing, or the
\* score of an earlier evaluation stored at clock 0.
InitialCaches ==
    {m \in [BatchKeys -> {Absent} \cup
                {CachedScore(score_session(TwoRuleScorer, k, TNone, 0).val, 0) :
                    k \in Keys}] :
        \A k \in BatchKeys :
            m[k] # Absent => k \in Keys /\ m[k].score.session_id = k}

BatchOff ==
    /\ sessions = <<>>
    /\ idx = 0
    /\ batch_pc = "off"
    /\ spawned = {}
    /\ finished = <<>>
    /\ joined = {}
    /\ results = <<>>
    /\ origin = <<>>
    /\ hit = {}

\* let mut results = Vec::with_capacity(..); let mut tasks = JoinSet::new();
BatchStart(input) ==
    /\ sessions = input
    /\ idx = 1
    /\ batch_pc = IF Len(input) = 0 THEN "collect" ELSE "scan"
    /\ spawned = {}
    /\ finished = <<>>
    /\ joined = {}
    /\ results = <<>>
    /\ origin = <<>>
    /\ hit = {}

AfterScan(i) == IF i + 1 > Len(sessions) THEN "collect" ELSE "scan"

\* (ScanHitSpawning: a hit that lacks the `continue` and falls through to
\* tasks.spawn.)
ScanHitSpawning ==
    /\ batch_pc = "scan"
    /\ CacheGet(cache, sessions[idx].session_id, now, ttl) # None
    /\ results' = Append(results,
          ScoreOk(CacheGet(cache, sessions[idx].session_id, now, ttl).val))
    /\ origin' = Append(origin, idx)
    /\ hit' = hit \cup {idx}
    /\ spawned' = spawned \cup {idx}
    /\ idx' = idx + 1
    /\ batch_pc' = AfterScan(idx)
    /\ UNCHANGED <<sessions, finished, joined>>
    /\ UNCHANGED <<retry_vars, cache_vars, engine_vars, db_vars, scan_vars>>

\* for (session_id, transcript) in sessions:
\*     if let Some(cached) = cache.get(&session_id).await
\*         { results.push(Ok(cached)); continue; }
ScanHit ==
    /\ batch_pc = "scan"
    /\ CacheGet(cache, sessions[idx].session_id, now, ttl) # None
    /\ results' = Append(results,
          ScoreOk(CacheGet(cache, sessions[idx].session_id, now, ttl).val))
    /\ origin' = Append(origin, idx)
    /\ hit' = hit \cup {idx}
    /\ idx' = idx + 1
    /\ batch_pc' = AfterScan(idx)
    /\ UNCHANGED <<sessions, spawned, finished, joined>>
    /\ UNCHANGED <<retry_vars, cache_vars, engine_vars, db_vars, scan_vars>>

\*     tasks.spawn(async move { ... });
ScanMiss ==
    /\ batch_pc = "scan"
    /\ CacheGet(cache, sessions[idx].session_id, now, ttl) = None
    /\ spawned' = spawned \cup {idx}
    /\ idx' = idx + 1
    /\ batch_pc' = AfterScan(idx)
    /\ UNCHANGED <<sessions, finished, joined, results, origin, hit>>
    /\ UNCHANGED <<retry_vars, cache_vars, engine_vars, db_vars, scan_vars>>

\* A spawned task runs on a worker, at any time before the JoinSet is
\* dropped: let result = scorer.score_session(&session_id, &transcript);
\* (session_id, result).  A panic ends the task with a JoinError.
TaskRun(i) ==
    /\ batch_pc \in {"scan", "collect"}
    /\ i \in spawned
    /\ \A j \in 1..Len(finished) : finished[j].task # i
    /\ finished' = Append(finished,
          [task |-> i,
           out |-> score_session(scorer, sessions[i].session_id,
                                 sessions[i].transcript, now)])
    /\ UNCHANGED <<sessions, idx, batch_pc, spawned, joined, results, origin, hit>>
    /\ UNCHANGED <<retry_vars, cache_vars, engine_vars, db_vars, scan_vars>>

\* What join_next() yields: the tasks in the order they finished, None once
\* every spawned task has been handed out.
JoinNext ==
    IF joined = spawned THEN [tag |-> "None"]
    ELSE IF Len(finished) > Cardinality(joined)
    THEN [tag |-> "Some", val |-> finished[Cardinality(joined) + 1]]
    ELSE [tag |-> "Pending"]

\* while let Some(Ok((session_id, result))) = tasks.join_next().await {
\*     if let Ok(ref score) = result { cache.set(session_id, score.clone()).await; }
\*     results.push(result); }
CollectOk ==
    /\ batch_pc = "collect"
    /\ JoinNext.tag = "Some"
    /\ JoinNext.val.out.tag = "Ok"
    /\ cache' = CacheInsert(cache, sessions[JoinNext.val.task].session_id,
                            JoinNext.val.out.val, now)
    /\ results' = Append(results, JoinNext.val.out)
    /\ origin' = Append(origin, JoinNext.val.task)
    /\ joined' = joined \cup {JoinNext.val.task}
    /\ UNCHANGED <<sessions, idx, batch_pc, spawned, finished, hit>>
    /\ UNCHANGED <<ttl, now, readers, writers, cl, ret, last_set, last_acq>>
    /\ UNCHANGED <<retry_vars, engine_vars, db_vars, scan_vars>>

CollectErr ==
    /\ batch_pc = "collect"
    /\ JoinNext.tag = "Some"
    /\ JoinNext.val.out.tag = "Err"
    /\ results' = Append(results, JoinNext.val.out)
    /\ origin' = Append(origin, JoinNext.val.task)
    /\ joined' = joined \cup {JoinNext.val.task}
    /\ UNCHANGED <<sessions, idx, batch_pc, spawned, finished, hit>>
    /\ UNCHANGED <<retry_vars, cache_vars, engine_vars, db_vars, scan_vars>>

\* join_next() yields Some(Err(JoinError)): the pattern does not match, the
\* loop ends, `results` is returned and the JoinSet is dropped.
CollectJoinError ==
    /\ batch_pc = "collect"
    /\ JoinNext.tag = "Some"
    /\ JoinNext.val.out.tag = "Panic"
    /\ joined' = joined \cup {JoinNext.val.task}
    /\ batch_pc' = "returned"
    /\ UNCHANGED <<sessions, idx, spawned, finished, results, origin, hit>>
    /\ UNCHANGED <<retry_vars, cache_vars, engine_vars, db_vars, scan_vars>>

\* join_next() yields None: every task was joined; `results` is returned.
CollectDone ==
    /\ batch_pc = "collect"
    /\ JoinNext.tag = "None"
    /\ batch_pc' = "returned"
    /\ UNCHANGED <<sessions, idx, spawned, finished, joined, results, origin, hit>>
    /\ UNCHANGED <<retry_vars, cache_vars, engine_vars, db_vars, scan_vars>>

(***************************************************************************)
(* lib.rs: one call of BehaviorScorer::score_session                       *)
(***************************************************************************)

\* Bound of the engine model: the longest rule set handed to with_config.
MaxRules == 2

\* The rules a TrackerConfig is drawn from: the two of Rules, one of negative
\* and one of zero weight, and one whose pattern uses look-ahead; the last
\* two carry the same id, which with_config does not refuse.
RuleChoices ==
    { Rules[1], Rules[2],
      RuleDefinition("r3", "Decision", "Ask a binary question",
                     "Ship now\\? Y/N|binary|Y/N", -10),
      RuleDefinition("r5", "Objective again", "Repeat the objective",
                     "OBJECTIVE:", 0),
      RuleDefinition("r5", "Volume", "Keep it short",
                     "(?s)^(?:(?!(\\n\\n)).){0,300}$", 10) }

TrackerConfigs == {[rules |-> r] : r \in SeqsUpTo(RuleChoices, MaxRules)}

\* The scorers under test: BehaviorScorer::new() and with_config(config).
Scorers == {with_config(c) : c \in TrackerConfigs} \cup {BehaviorScorer_new}

\* The arguments of score_session.
SessionIds ==
    { <<>>, Str("s1"), Str("../etc/passwd"), Str("a/b"),
      Repeat("a", 256), Repeat("a", 257), Repeat(E_ACUTE, 129) }

TExample ==
    Transcript(Str("Confidence level: Confident\nOBJECTIVE: Test\nQuery local-memory first\nShip now? Y/N"), 0)
TEmpty == Transcript(<<>>, 0)
TLong == Transcript(Str("intro\nOBJECTIVE: ") \o Repeat("a", 200) \o Str("\nShip now? Y/N"), 0)
TMax == Transcript(Str("OBJECTIVE:"), MAX_SIZE - 10)
TBig == Transcript(Str("OBJECTIVE:"), MAX_SIZE - 9)

Transcripts == {TGood, TNone, TNul, TWide, TExample, TEmpty, TLong, TMax, TBig}

EngineOff ==
    /\ scorer = None
    /\ call = None
    /\ outcome = None
    /\ calls = <<>>

DbOff == db = None

ScanOff == scan = None

\* scorer.score_session(session_id, transcript), evaluated at wall-clock utc.
ScoreSession(session_id, transcript, utc) ==
    /\ scorer # None
    /\ call = None
    /\ call' = Session(session_id, transcript)
    /\ outcome' = score_session(scorer, session_id, transcript, utc)
    /\ UNCHANGED <<scorer, calls>>
    /\ UNCHANGED <<retry_vars, cache_vars, batch_vars, db_vars, scan_vars>>

(***************************************************************************)
(* lib.rs: callers sharing one BehaviorScorer through &self                *)
(***************************************************************************)

\* The scorers shared and the arguments the callers pass.
SharedScorers ==
    {BehaviorScorer_new, TwoRuleScorer, with_config([rules |-> <<>>])}

SharedCalls ==
    {Session(session_id, transcript) :
        session_id \in {Str("s1"), Str("a/b")},
        transcript \in {TGood, TNone, TWide, TExample}}

\* No call of score_session in progress.
NoCalls == [c \in Callers |-> [pc |-> "idle"]]

\* Caller c enters scorer.score_session(session_id, transcript).
CallEnter(c, session_id, transcript) ==
    /\ calls # <<>>
    /\ calls[c].pc \in {"idle", "returned"}
    /\ calls' = [calls EXCEPT ![c] =
                    [pc |-> "running", args |-> Session(session_id, transcript)]]
    /\ UNCHANGED <<scorer, call, outcome>>
    /\ UNCHANGED <<retry_vars, cache_vars, batch_vars, db_vars, scan_vars>>

\* The call of caller c runs to its end, reading the clock at utc; the scorer
\* is borrowed immutably and has no interior mutability.  `overlapped`
\* observes whether another call was in progress at that moment.
\* (CallReturnConsuming: the call empties the map of compiled rules.)
CallReturnConsuming(c, utc) ==
    /\ calls # <<>>
    /\ calls[c].pc = "running"
    /\ calls' = [calls EXCEPT ![c] =
                    [pc |-> "returned", args |-> calls[c].args,
                     result |-> score_session(scorer, calls[c].args.session_id,
                                              calls[c].args.transcript, utc),
                     overlapped |-> \E d \in Callers \ {c} :
                                        calls[d].pc = "running"]]
    /\ scorer' = [scorer EXCEPT !.compiled_rules = <<>>]
    /\ UNCHANGED <<call, outcome>>
    /\ UNCHANGED <<retry_vars, cache_vars, batch_vars, db_vars, scan_vars>>
CallReturn(c, utc) ==
    /\ calls # <<>>
    /\ calls[c].pc = "running"
    /\ calls' = [calls EXCEPT ![c] =
                    [pc |-> "returned", args |-> calls[c].args,
                     result |-> score_session(scorer, calls[c].args.session_id,
                                              calls[c].args.transcript, utc),
                     overlapped |-> \E d \in Callers \ {c} :
                                        calls[d].pc = "running"]]
    /\ UNCHANGED <<scorer, call, outcome>>
    /\ UNCHANGED <<retry_vars, cache_vars, batch_vars, db_vars, scan_vars>>

(***************************************************************************)
(* db.rs: Database, the SQLite tables sessions, scores and rule_checks     *)
(***************************************************************************)

\* Bound of the database model: the rows ever inserted into scores and into
\* rule_checks.
MaxRows == 2

\* The TEXT keys handed to create_session, and the INTEGER ids handed to the
\* other operations (one more than any row can have).
SessionKeys == {"s1", "s2"}
RowIds == 1..(MaxRows + 1)

\* The connection enforces foreign keys: sqlx opens SQLite connections with
\* PRAGMA foreign_keys = ON unless the options say otherwise, and
\* Pool::connect is given a bare URL.
PragmaForeignKeys == TRUE

\* The database after run_migrations: empty tables, and the sqlite_sequence
\* counters of the two AUTOINCREMENT keys.  `last` observes the operation
\* that ran last and what it returned.
EmptyDatabase ==
    [sessions |-> {}, scores |-> {}, rule_checks |-> {},
     seq_scores |-> 0, seq_rule_checks |-> 0, last |-> None]

Returned(op, arg, ok) == [op |-> op, arg |-> arg, ok |-> ok]

\* ON DELETE CASCADE: the rows of child whose parent key is not among parents
\* are deleted with their parent.
Cascade(child, key, parents) ==
    IF PragmaForeignKeys THEN {r \in child : r[key] \in parents} ELSE child

\* Database::create_session: INSERT INTO sessions; the PRIMARY KEY refuses an
\* id that is already stored.
create_session(id) ==
    /\ db # None
    /\ db' = IF id \in db.sessions
             THEN [db EXCEPT !.last = Returned("create_session", id, FALSE)]
             ELSE [db EXCEPT !.sessions = @ \cup {id},
                             !.last = Returned("create_session", id, TRUE)]
    /\ UNCHANGED <<retry_vars, cache_vars, batch_vars, engine_vars, scan_vars>>

\* Database::create_score: INSERT INTO scores; the FOREIGN KEY refuses a
\* session_id without a session, AUTOINCREMENT hands out the next id.
create_score(session_id) ==
    /\ db # None
    /\ db.seq_scores < MaxRows
    /\ db' = IF PragmaForeignKeys /\ session_id \notin db.sessions
             THEN [db EXCEPT !.last = Returned("create_score", session_id, FALSE)]
             ELSE [db EXCEPT !.scores = @ \cup {[id |-> db.seq_scores + 1,
                                                 session_id |-> session_id]},
                             !.seq_scores = @ + 1,
                             !.last = Returned("create_score", session_id, TRUE)]
    /\ UNCHANGED <<retry_vars, cache_vars, batch_vars, engine_vars, scan_vars>>

\* Database::create_rule_check: INSERT INTO rule_checks; the FOREIGN KEY
\* refuses a score_id without a score.
create_rule_check(score_id) ==
    /\ db # None
    /\ db.seq_rule_checks < MaxRows
    /\ db' = IF PragmaForeignKeys
                /\ score_id \notin {r.id : r \in db.scores}
             THEN [db EXCEPT !.last = Returned("create_rule_check", score_id, FALSE)]
             ELSE [db EXCEPT !.rule_checks = @ \cup {[id |-> db.seq_rule_checks + 1,
                                                      score_id |-> score_id]},
                             !.seq_rule_checks = @ + 1,
                             !.last = Returned("create_rule_check", score_id, TRUE)]
    /\ UNCHANGED <<retry_vars, cache_vars, batch_vars, engine_vars, scan_vars>>

\* Database::delete_session: DELETE FROM sessions WHERE id = ?1, cascading
\* to scores and from there to rule_checks; Ok(rows_affected() > 0).
\* (delete_session_row_only: the row deleted without any cascade.)
delete_session_row_only(id) ==
    /\ db # None
    /\ db' = [db EXCEPT !.sessions = @ \ {id},
                        !.last = Returned("delete_session", id, id \in db.sessions)]
    /\ UNCHANGED <<retry_vars, cache_vars, batch_vars, engine_vars, scan_vars>>
delete_session(id) ==
    /\ db # None
    /\ LET sessions1 == db.sessions \ {id}
           scores1 == Cascade(db.scores, "session_id", sessions1)
           checks1 == Cascade(db.rule_checks, "score_id", {r.id : r \in scores1})
       IN db' = [db EXCEPT !.sessions = sessions1,
                           !.scores = IF id \in db.sessions THEN scores1 ELSE @,
                           !.rule_checks = IF id \in db.sessions THEN checks1 ELSE @,
                           !.last = Returned("delete_session", id, id \in db.sessions)]
    /\ UNCHANGED <<retry_vars, cache_vars, batch_vars, engine_vars, scan_vars>>

\* Database::delete_score: DELETE FROM scores WHERE id = ?1, cascading to
\* rule_checks.
delete_score(id) ==
    /\ db # None
    /\ LET found == id \in {r.id : r \in db.scores}
           scores1 == {r \in db.scores : r.id # id}
           checks1 == Cascade(db.rule_checks, "score_id", {r.id : r \in scores1})
       IN db' = [db EXCEPT !.scores = scores1,
                           !.rule_checks = IF found THEN checks1 ELSE @,
                           !.last = Returned("delete_score", id, found)]
    /\ UNCHANGED <<retry_vars, cache_vars, batch_vars, engine_vars, scan_vars>>

\* Database::delete_rule_check: DELETE FROM rule_checks WHERE id = ?1.
delete_rule_check(id) ==
    /\ db # None
    /\ db' = [db EXCEPT !.rule_checks = {r \in @ : r.id # id},
                        !.last = Returned("delete_rule_check", id,
                                          id \in {r.id : r \in db.rule_checks})]
    /\ UNCHANGED <<retry_vars, cache_vars, batch_vars, engine_vars, scan_vars>>

(***************************************************************************)
(* lib.rs: BehaviorScorer::scan_and_score_directory                        *)
(***************************************************************************)

\* Bound of the scan model: the entries below the directory scanned.
MaxEntries == 2

\* const MAX_FILE_SIZE: u64 = 10 * 1024 * 1024 in scan_and_score_directory.
MAX_FILE_SIZE == 10485760

\* What lies below the directory: per entry whether the walk can read it
\* (walk_ok), its file type, its depth below the root, its file name, the
\* length fs::metadata reports (meta_ok, len) and what fs::read_to_string
\* answers (read_ok, content).
Node(walk_ok, file_type, depth, file_name, meta_ok, read_ok, content) ==
    [walk_ok |-> walk_ok, file_type |-> file_type, depth |-> depth,
     file_name |-> Str(file_name), meta_ok |-> meta_ok,
     len |-> str_len(content.text) + content.pad,
     read_ok |-> read_ok, content |-> content]

Nodes ==
    { Node(TRUE, "file", 1, "s1.md", TRUE, TRUE, TGood),
      Node(TRUE, "file", 2, "s2.json", TRUE, TRUE, TWide),
      Node(TRUE, "file", 3, "deep.md", TRUE, TRUE, TGood),
      Node(TRUE, "file", 1, "big.md", TRUE, TRUE, TBig),
      Node(TRUE, "file", 1, "raw.md", FALSE, TRUE, TBig),
      Node(TRUE, "file", 1, "bin.json", TRUE, FALSE, TNone),
      Node(TRUE, "file", 2, "nul.md", TRUE, TRUE, TNul),
      Node(TRUE, "file", 1, "notes.txt", TRUE, TRUE, TGood),
      Node(TRUE, "file", 1, ".md", TRUE, TRUE, TGood),
      Node(TRUE, "dir", 1, "sub.md", TRUE, FALSE, TNone),
      Node(FALSE, "file", 2, "locked.md", TRUE, TRUE, TGood) }

\* Where dir_path lies: inside the base path, outside it, nowhere; and
\* whether the base path itself exists.
Places == {"inside", "outside", "missing"}

\* WalkDir::new(dir_path).max_depth(2), below the root: the entries of depth
\* 1 and 2, in the order of the walk.
RECURSIVE WalkDir(_, _)
WalkDir(tree, max_depth) ==
    IF tree = <<>> THEN <<>>
    ELSE (IF Head(tree).depth <= max_depth THEN <<Head(tree)>> ELSE <<>>)
         \o WalkDir(Tail(tree), max_depth)

\* Path::extension of a file name: what follows the last dot, unless the
\* only dot is the leading one.
extension(file_name) ==
    LET dots == {i \in 2..Len(file_name) : file_name[i] = "."}
    IN IF dots = {} THEN None
       ELSE Some(SubSeq(file_name, MaxOf(dots) + 1, Len(file_name)))

\* The body of the for loop for one entry (lines 393-416): Some(scores
\* after it), or the panic of score_session.
\* (scan_entry_unwrapping: the result of score_session unwrapped, so that a
\* rejected file panics.)
scan_entry_unwrapping(self, entry, scores, utc) ==
    IF ~entry.walk_ok \/ entry.file_type # "file" THEN Some(scores)
    ELSE IF extension(entry.file_name) \notin {Some(Str("md")), Some(Str("json"))}
    THEN Some(scores)
    ELSE IF entry.meta_ok /\ entry.len > MAX_FILE_SIZE THEN Some(scores)
    ELSE IF ~entry.read_ok THEN Some(scores)
    ELSE LET r == score_session(self, entry.file_name, entry.content, utc)
         IN IF r.tag = "Ok" THEN Some(Append(scores, r.val)) ELSE Panicked
scan_entry(self, entry, scores, utc) ==
    IF ~entry.walk_ok \/ entry.file_type # "file" THEN Some(scores)
    ELSE IF extension(entry.file_name) \notin {Some(Str("md")), Some(Str("json"))}
    THEN Some(scores)
    ELSE IF entry.meta_ok /\ entry.len > MAX_FILE_SIZE THEN Some(scores)
    ELSE IF ~entry.read_ok THEN Some(scores)
    ELSE LET r == score_session(self, entry.file_name, entry.content, utc)
         IN IF r = Panicked THEN Panicked
            ELSE IF r.tag = "Ok" THEN Some(Append(scores, r.val))
            ELSE Some(scores)

\* A call scan_and_score_directory(dir_path) about to start.
ScanCall(base_exists, place, tree) ==
    [pc |-> "start", base_exists |-> base_exists, place |-> place,
     tree |-> tree, walk |-> <<>>, pos |-> 0, scores |-> <<>>, result |-> None]

\* Lines 380-390: the base path and the directory are canonicalized and
\* compared; then the walk is set up.
ScanStart ==
    /\ scan # None
    /\ scan.pc = "start"
    /\ scan' =
          IF ~scan.base_exists
          THEN [scan EXCEPT !.pc = "returned",
                            !.result = ScoreErr("Invalid base path")]
          ELSE IF scan.place = "missing"
          THEN [scan EXCEPT !.pc = "returned",
                            !.result = ScoreErr("Invalid directory path")]
          ELSE IF scan.place = "outside"
          THEN [scan EXCEPT !.pc = "returned",
                            !.result = ScoreErr("Directory path is outside allowed base path")]
          ELSE [scan EXCEPT !.pc = "walk", !.walk = WalkDir(scan.tree, 2)]
    /\ UNCHANGED <<retry_vars, cache_vars, batch_vars, engine_vars, db_vars>>

\* One round of the for loop, the clock standing at utc.
ScanEntry(utc) ==
    /\ scan # None
    /\ scan.pc = "walk"
    /\ scan.pos < Len(scan.walk)
    /\ \E next \in {scan_entry(scorer, scan.walk[scan.pos + 1], scan.scores, utc)} :
          scan' = IF next = Panicked
                  THEN [scan EXCEPT !.pc = "panicked", !.pos = @ + 1]
                  ELSE [scan EXCEPT !.pos = @ + 1, !.scores = next.val]
    /\ UNCHANGED <<retry_vars, cache_vars, batch_vars, engine_vars, db_vars>>

\* Line 419: Ok(scores).
ScanReturn ==
    /\ scan # None
    /\ scan.pc = "walk"
    /\ scan.pos = Len(scan.walk)
    /\ scan' = [scan EXCEPT !.pc = "returned", !.result = Ok(scan.scores)]
    /\ UNCHANGED <<retry_vars, cache_vars, batch_vars, engine_vars, db_vars>>

(***************************************************************************)
(* retry.rs: score_session_with_retry                                      *)
(***************************************************************************)

\* impl Default for RetryConfig.
DefaultRetryConfig ==
    [max_attempts |-> 3, base_delay_ms |-> 1000, max_delay_ms |-> 30000,
     multiplier2 |-> 4]

\* The closure handed to retry_with_backoff: the result of score_session
\* turned into Result<SessionScore, RetryError>.
\* (ClassifyInvalidTransient: a further arm, e.contains("Invalid") => Transient.)
ClassifyInvalidTransient(r) ==
    IF r.tag = "Ok" THEN Ok(r.val)
    ELSE IF contains(r.msg, "Invalid") THEN Transient(r.msg)
    ELSE IF contains(r.msg, "database") THEN Transient(r.msg)
    ELSE IF contains(r.msg, "timeout") THEN Transient(r.msg)
    ELSE Permanent(r.msg)
Classify(r) ==
    IF r.tag = "Ok" THEN Ok(r.val)
    ELSE IF contains(r.msg, "database") THEN Transient(r.msg)
    ELSE IF contains(r.msg, "timeout") THEN Transient(r.msg)
    ELSE Permanent(r.msg)

\* The arguments of a call.
Calls == {Session(session_id, transcript) :
             session_id \in SessionIds, transcript \in Transcripts}

\* score_session_with_retry(scorer, session_id, transcript) is entered.
ScoreRetryStart ==
    /\ scorer \in Scorers
    /\ call \in Calls
    /\ outcome = None
    /\ calls = <<>>
    /\ RetryStart(DefaultRetryConfig)

\* The closure of score_session_with_retry, called at wall-clock utc: a
\* Result<SessionScore, RetryError>, or the panic of score_session.
Operation(utc) ==
    LET r == score_session(scorer, call.session_id, call.transcript, utc)
    IN IF r = Panicked THEN Panicked ELSE Classify(r)

\* One round of the loop of retry_with_backoff around the closure: the
\* attempt, the match on its outcome o and, in the retry arm, the sleep and
\* the growth of the delay.  A panic of score_session unwinds the call.
ScoreAttempt(utc) ==
    /\ retry_pc = "loop"
    /\ scorer # None
    /\ attempts' = attempts + 1
    /\ \E o \in {Operation(utc)} :
          \E arm \in {IF o = Panicked THEN "panic"
                      ELSE MatchArm(o, attempts + 1, config)} :
              /\ invocations' = IF arm = "panic" THEN invocations
                                ELSE Append(invocations, o)
              /\ retry_pc' = IF arm = "panic" THEN "panicked"
                             ELSE IF arm = "retry" THEN "loop" ELSE "done"
              /\ retry_result' =
                    IF arm = "ok" THEN o
                    ELSE IF arm = "permanent" THEN Permanent(o.msg)
                    ELSE IF arm = "exhausted"
                         THEN MaxRetriesExceeded(to_string(o))
                    ELSE retry_result
              /\ sleeps' = IF arm = "retry" THEN Append(sleeps, delay_ms)
                           ELSE sleeps
              /\ delay_ms' = IF arm = "retry" THEN NextDelay(delay_ms, config)
                             ELSE delay_ms
    /\ UNCHANGED config
    /\ UNCHANGED engine_vars
    /\ UNCHANGED <<cache_vars, batch_vars, db_vars, scan_vars>>

(***************************************************************************)
(* Specifications                                                          *)
(***************************************************************************)

\* One call of retry_with_backoff, for every RetryConfig and every sequence
\* of operation outcomes.
RetryInit ==
    /\ \E cfg \in RetryConfigs : RetryStart(cfg)
    /\ CacheOff
    /\ BatchOff
    /\ EngineOff
    /\ DbOff
    /\ ScanOff

RetryNext ==
    \/ \E o \in Outcomes : AttemptOk(o)
    \/ \E o \in Outcomes : AttemptPermanent(o)
    \/ \E o \in Outcomes : AttemptExhausted(o)
    \/ \E o \in Outcomes : AttemptRetry(o)
    \/ SleepDone

SpecRetry == RetryInit /\ [][RetryNext]_vars

\* The same call when every invocation of the operation and every sleep
\* returns: a step of the call that can be taken is eventually taken.
SpecRetryLive == RetryInit /\ [][RetryNext]_vars /\ WF_vars(RetryNext)

\* Callers running get, set and cleanup against one ScoreCache.
CacheInit ==
    /\ \E ttl_seconds \in 0..MaxTtl : CacheNew(ttl_seconds)
    /\ now = 0
    /\ RetryOff
    /\ BatchOff
    /\ EngineOff
    /\ DbOff
    /\ ScanOff

CacheNext ==
    \/ Tick
    \/ \E c \in Callers, k \in Keys : GetAcquire(c, k)
    \/ \E c \in Callers : GetReturn(c)
    \/ \E c \in Callers, k \in Keys : \E s \in ScoresFor(k) : SetAcquire(c, k, s)
    \/ \E c \in Callers : SetInsertScore(c)
    \/ \E c \in Callers : SetInsertTimestamp(c)
    \/ \E c \in Callers : CleanupAcquire(c)
    \/ \E c \in Callers : CleanupRetain(c)

SpecCache == CacheInit /\ [][CacheNext]_vars

\* One call of score_sessions_batch, for every input list, every initial
\* cache and TTL, and every completion order of its tasks.
BatchInit ==
    /\ \E input \in SeqsUpTo(BatchInputs, MaxBatch) : BatchStart(input)
    /\ cache \in InitialCaches
    /\ ttl \in 0..MaxTtl
    /\ now = 0
    /\ readers = {}
    /\ writers = {}
    /\ cl = <<>>
    /\ ret = None
    /\ last_set = <<>>
    /\ last_acq = <<>>
    /\ RetryOff
    /\ scorer = TwoRuleScorer
    /\ call = None
    /\ outcome = None
    /\ calls = <<>>
    /\ DbOff
    /\ ScanOff

BatchNext ==
    \/ Tick
    \/ ScanHit
    \/ ScanMiss
    \/ \E i \in 1..MaxBatch : TaskRun(i)
    \/ CollectOk
    \/ CollectErr
    \/ CollectJoinError
    \/ CollectDone

SpecBatch == BatchInit /\ [][BatchNext]_vars

\* One call of score_session, for every scorer and every pair of arguments.
EngineInit ==
    /\ scorer \in Scorers
    /\ call = None
    /\ outcome = None
    /\ calls = <<>>
    /\ RetryOff
    /\ CacheOff
    /\ BatchOff
    /\ DbOff
    /\ ScanOff

EngineNext ==
    \E session_id \in SessionIds, transcript \in Transcripts, utc \in {0, MaxClock} :
        ScoreSession(session_id, transcript, utc)

SpecEngine == EngineInit /\ [][EngineNext]_vars

\* Two callers calling score_session on one scorer, one call after the
\* other or at the same time.
SharedInit ==
    /\ scorer \in SharedScorers
    /\ call = None
    /\ outcome = None
    /\ calls = NoCalls
    /\ RetryOff
    /\ CacheOff
    /\ BatchOff
    /\ DbOff
    /\ ScanOff

SharedNext ==
    \/ \E c \in Callers, a \in SharedCalls :
          CallEnter(c, a.session_id, a.transcript)
    \/ \E c \in Callers, utc \in {0, MaxClock} : CallReturn(c, utc)

SpecShared == SharedInit /\ [][SharedNext]_vars

\* Any sequence of the six storage operations on a database fresh from
\* Database::new.
DbInit ==
    /\ db = EmptyDatabase
    /\ RetryOff
    /\ CacheOff
    /\ BatchOff
    /\ EngineOff
    /\ ScanOff

DbNext ==
    \/ \E id \in SessionKeys : create_session(id)
    \/ \E session_id \in SessionKeys : create_score(session_id)
    \/ \E score_id \in RowIds : create_rule_check(score_id)
    \/ \E id \in SessionKeys : delete_session(id)
    \/ \E id \in RowIds : delete_score(id)
    \/ \E id \in RowIds : delete_rule_check(id)

SpecDb == DbInit /\ [][DbNext]_vars

\* One call of scan_and_score_directory, for every directory content.
ScanInit ==
    /\ scorer \in {BehaviorScorer_new, TwoRuleScorer}
    /\ call = None
    /\ outcome = None
    /\ calls = <<>>
    /\ \E base_exists \in BOOLEAN, place \in Places,
          tree \in SeqsUpTo(Nodes, MaxEntries) :
              scan = ScanCall(base_exists, place, tree)
    /\ RetryOff
    /\ CacheOff
    /\ BatchOff
    /\ DbOff

ScanNext ==
    \/ ScanStart
    \/ \E utc \in {0, MaxClock} : ScanEntry(utc)
    \/ ScanReturn

SpecScan == ScanInit /\ [][ScanNext]_vars

\* One call of score_session_with_retry, for every scorer and every pair of
\* arguments.
ScoreRetryInit ==
    /\ ScoreRetryStart
    /\ CacheOff
    /\ BatchOff
    /\ DbOff
    /\ ScanOff

ScoreRetryNext == \E utc \in {0, MaxClock} : ScoreAttempt(utc)

SpecScoreRetry == ScoreRetryInit /\ [][ScoreRetryNext]_vars

(***************************************************************************)
(* Properties of retry_with_backoff (checked under SpecRetry)              *)
(***************************************************************************)

IsTransientFailure(o) == o.tag \in {"Transient", "MaxRetriesExceeded"}

AllTransient ==
    \A i \in 1..Len(invocations) : IsTransientFailure(invocations[i])

Sum(s) ==
    LET RECURSIVE Go(_)
        Go(i) == IF i = 0 THEN 0 ELSE s[i] + Go(i - 1)
    IN Go(Len(s))

Pow(b, e) ==
    LET RECURSIVE Go(_)
        Go(i) == IF i = 0 THEN 1 ELSE b * Go(i - 1)
    IN Go(e)

\* C3: with max_attempts >= 1 the operation is invoked at most max_attempts
\* times; a call whose attempts all failed transiently made exactly
\* max_attempts invocations and returned MaxRetriesExceeded carrying the
\* Display message of the last failure.
C3_RetryBound ==
    config.max_attempts >= 1 =>
        /\ Len(invocations) <= config.max_attempts
        /\ attempts = Len(invocations)
        /\ (retry_pc = "done" /\ AllTransient) =>
              /\ Len(invocations) = config.max_attempts
              /\ retry_result =
                    MaxRetriesExceeded(to_string(invocations[Len(invocations)]))

C3_Witness ==
    /\ retry_pc = "done"
    /\ config.max_attempts = 3
    /\ AllTransient
    /\ Len(invocations) = 3
    /\ invocations[2] = Transient("database")
    /\ invocations[3] = Transient("timeout")
    /\ retry_result = MaxRetriesExceeded("Transient error: timeout")

\* C4: a Permanent outcome on attempt k ends the call at once: it is the
\* last invocation, the call has returned Permanent with the same message,
\* and the only sleeps are the k-1 that followed the earlier transient
\* failures (none after attempt k).
C4_PermanentStops ==
    \A k \in 1..Len(invocations) :
        invocations[k].tag = "Permanent" =>
            /\ k = Len(invocations)
            /\ \A i \in 1..(k - 1) : IsTransientFailure(invocations[i])
            /\ retry_pc = "done"
            /\ retry_result = Permanent(invocations[k].msg)
            /\ Len(sleeps) = k - 1

C4_Witness ==
    /\ retry_pc = "done"
    /\ config.max_attempts = 2
    /\ Len(invocations) = 2
    /\ invocations[1] = Transient("timeout")
    /\ invocations[2] = Permanent("database")
    /\ retry_result = Permanent("database")
    /\ Len(sleeps) = 1

\* C5: the first successful attempt k ends the call at once: it is the last
\* invocation, the call has returned Ok with that attempt's value, all
\* earlier attempts were transient failures and exactly k-1 sleeps happened
\* (none when the first attempt succeeds).
C5_SuccessReturns ==
    \A k \in 1..Len(invocations) :
        invocations[k].tag = "Ok" =>
            /\ k = Len(invocations)
            /\ \A i \in 1..(k - 1) : IsTransientFailure(invocations[i])
            /\ retry_pc = "done"
            /\ retry_result = Ok(invocations[k].val)
            /\ Len(sleeps) = k - 1

C5_Witness ==
    /\ retry_pc = "done"
    /\ Len(invocations) = 3
    /\ invocations[3] = Ok(42)
    /\ retry_result = Ok(42)
    /\ Len(sleeps) = 2

\* C6: every backoff sleep is capped at max_delay_ms: the k-th sleep lasts
\* min(base_delay_ms * backoff_multiplier^(k-1), max_delay_ms) milliseconds,
\* no sleep exceeds max_delay_ms, and the total delay of a finished call is
\* at most (invocations - 1) * max_delay_ms.
C6_SleepsCapped ==
    /\ \A k \in 1..Len(sleeps) :
          /\ sleeps[k] <= config.max_delay_ms
          /\ sleeps[k] =
                Min((config.base_delay_ms * Pow(config.multiplier2, k - 1))
                        \div Pow(2, k - 1),
                    config.max_delay_ms)
    /\ retry_pc = "done" =>
          Sum(sleeps) <= (Len(invocations) - 1) * config.max_delay_ms

(***************************************************************************)
(* Properties of ScoreCache (checked under SpecCache)                      *)
(***************************************************************************)

\* C7: a get returns the score of the last completed set on its key exactly
\* while the time elapsed since that set is strictly below the TTL, and None
\* from elapsed = TTL on (always None with TTL 0).
C7_GetAfterSet ==
    ret # None =>
        LET e == last_set[ret.key]
        IN ret.res = IF e # None /\ now - e.timestamp < ttl
                     THEN Some(e.score)
                     ELSE None

C7_Witness ==
    /\ ret # None
    /\ last_set[ret.key] # None
    /\ ttl > 0
    /\ now - last_set[ret.key].timestamp = ttl
    /\ cache[ret.key] # Absent
    /\ ret.res = None

\* C8: the lock admits one writer at a time and no reader beside a writer,
\* while readers may share it; what a get looked at is either no entry or
\* the whole entry of the last completed set on its key, never a mixture.
C8_LockExclusion ==
    /\ Cardinality(writers) <= 1
    /\ writers # {} => readers = {}
    /\ readers = {c \in Callers : cl[c].pc = "get"}
    /\ writers = {c \in Callers : cl[c].pc \in {"set", "set2", "cleanup"}}
    /\ ret # None => ret.seen \in {Absent, last_set[ret.key]}

C8_Witness ==
    /\ readers = Callers
    /\ \E k \in Keys : cache[k] # Absent

\* C9: whenever no write is in progress, every key holds the score of the
\* set that took the write lock last on that key, stamped by that set, and a
\* get within the TTL counted from that stamp returns it; keys never set
\* hold nothing (a set leaves the other keys alone).
C9_LastWriterWins ==
    writers = {} =>
        \A k \in Keys :
            IF last_acq[k] = None
            THEN cache[k] = Absent /\ last_set[k] = None
            ELSE /\ last_set[k].score = last_acq[k].score
                 /\ cache[k] \in {Absent, last_set[k]}
                 /\ now - last_set[k].timestamp < ttl =>
                       CacheGet(cache, k, now, ttl) = Some(last_acq[k].score)

C9_Witness ==
    /\ writers = {}
    /\ \E k \in Keys :
          /\ last_acq[k] # None
          /\ last_acq[k].over
          /\ last_set[k].timestamp > 0
          /\ CacheGet(cache, k, now, ttl) = Some(last_acq[k].score)
          /\ \E j \in Keys \ {k} : cache[j] # Absent /\ cache[j].timestamp = 0

\* C10: a step of get, taking the read guard or returning a hit or a miss,
\* leaves the map as it was: keys, scores and timestamps.
C10_GetReadOnly ==
    [][(\E c \in Callers :
            \/ cl[c].pc = "idle" /\ cl'[c].pc = "get"
            \/ cl[c].pc = "get" /\ cl'[c].pc = "idle")
       => cache' = cache]_vars

C10_Witness ==
    /\ ret # None
    /\ ret.res = None
    /\ cache[ret.key] # Absent
    /\ ~Fresh(cache[ret.key], now, ttl)

\* C11: a cleanup removes exactly the expired entries: in the step in which
\* cleanup runs retain, every entry older than the TTL goes, every entry a
\* get would have returned just before stays with its score and timestamp,
\* nothing else appears, and get answers on every key as it did before.
C11_CleanupExact ==
    [][(\E c \in Callers : cl[c].pc = "cleanup" /\ cl'[c].pc = "idle")
       => \A k \in Keys :
             /\ (cache[k] # Absent /\ now - cache[k].timestamp > ttl)
                    => cache'[k] = Absent
             /\ CacheGet(cache, k, now, ttl) # None => cache'[k] = cache[k]
             /\ cache'[k] \in {Absent, cache[k]}
             /\ CacheGet(cache', k, now', ttl') = CacheGet(cache, k, now, ttl)]_vars

\* With TTL 2 at clock 2, the entry set at clock 0 is gone (only a cleanup
\* at clock 2 can have removed it) and the entry set at clock 1 was kept.
C11_Witness ==
    /\ ttl = 2
    /\ now = 2
    /\ writers = {}
    /\ \E k \in Keys, j \in Keys :
          /\ last_set[k] # None
          /\ last_set[k].timestamp = 0
          /\ cache[k] = Absent
          /\ last_set[j] # None
          /\ last_set[j].timestamp = 1
          /\ cache[j] = last_set[j]
          /\ CacheGet(cache, j, now, ttl) = Some(last_set[j].score)

(***************************************************************************)
(* Properties of score_sessions_batch (checked under SpecBatch)            *)
(***************************************************************************)

\* The result the engine gives input i on its own, whatever the clock.
OwnResults(i) ==
    {score_session(scorer, sessions[i].session_id, sessions[i].transcript, t) :
        t \in 0..MaxClock}

\* C1: the list a batch returns has one element per input pair: as long as
\* the input, each input position behind exactly one element.
C1_OnePerInput ==
    batch_pc = "returned" =>
        /\ Len(results) = Len(sessions)
        /\ \A i \in 1..Len(sessions) :
              Cardinality({j \in 1..Len(results) : origin[j] = i}) = 1

\* C2: a failing evaluation leaves the other inputs alone: when the batch
\* returns, every input whose own evaluation did not panic has its own
\* element, the cached score it hit or the result the engine gives it alone.
C2_FailureIsolated ==
    batch_pc = "returned" =>
        \A i \in 1..Len(sessions) :
            (i \in hit \/ Panicked \notin OwnResults(i)) =>
                \E j \in 1..Len(results) :
                    /\ origin[j] = i
                    /\ (i \in hit \/ results[j] \in OwnResults(i))

\* C12: an input whose session_id has a valid cache entry when the loop
\* examines it is answered with that cached score and gets no task; an input
\* that misses gets a task and no answer yet; tasks are created by the
\* examination only, and score_session runs only for an input with a task.
C12_HitSkipsEngine ==
    [][/\ idx' # idx =>
             LET got == CacheGet(cache, sessions[idx].session_id, now, ttl)
             IN IF got # None
                THEN /\ results' = Append(results, ScoreOk(got.val))
                     /\ spawned' = spawned
                     /\ finished' = finished
                ELSE /\ results' = results
                     /\ spawned' = spawned \cup {idx}
       /\ spawned' # spawned => idx' # idx
       /\ finished' # finished =>
             /\ Len(finished') = Len(finished) + 1
             /\ finished'[Len(finished')].task \in spawned
             /\ finished'[Len(finished')].task \notin hit]_vars

\* The first input was answered from the cache, the second was evaluated.
C12_Witness ==
    /\ batch_pc = "returned"
    /\ Len(sessions) = 2
    /\ spawned = {2}
    /\ Len(finished) = 1
    /\ finished[1].task = 2
    /\ Len(results) = 2
    /\ origin = <<1, 2>>
    /\ results[1].tag = "Ok"
    /\ results[1].val.session_id = sessions[1].session_id
    /\ results[1].val.passed_rules = 0
    /\ results[2].tag = "Ok"
    /\ results[2].val.passed_rules = 1

\* C13: the batch writes to the cache exactly the successful evaluations:
\* when it returns, the entry under the session_id of every input whose
\* evaluation succeeded holds that input's score (or, for inputs sharing a
\* session_id, the score of another of them that succeeded), the key being
\* the score's own session_id; and taking the result of an evaluation that
\* did not succeed off the JoinSet leaves the cache as it was.
C13_WritesSuccesses ==
    /\ [](batch_pc = "returned" =>
            \A j \in 1..Len(finished) :
                finished[j].out.tag = "Ok" =>
                    LET k == sessions[finished[j].task].session_id
                    IN /\ cache[k] # Absent
                       /\ cache[k].score.session_id = k
                       /\ \E m \in 1..Len(finished) :
                             /\ sessions[finished[m].task].session_id = k
                             /\ finished[m].out = ScoreOk(cache[k].score))
    /\ [][(joined' # joined /\ JoinNext.val.out.tag # "Ok")
            => cache' = cache]_vars

(***************************************************************************)
(* Properties of score_session (checked under SpecEngine)                  *)
(***************************************************************************)

\* A session id the interface forbids: empty, longer than 256 characters, or
\* with a character other than alphanumerics, '-' and '_'.
InvalidSessionId(session_id) ==
    \/ session_id = <<>>
    \/ Len(session_id) > 256
    \/ \E i \in 1..Len(session_id) :
          session_id[i] \notin AlnumChars \cup {"-", "_"}

\* A transcript the interface forbids: larger than 10 MiB or with a null byte.
InvalidTranscript(transcript) ==
    \/ str_len(transcript.text) + transcript.pad > 10 * 1024 * 1024
    \/ \E i \in 1..Len(transcript.text) : transcript.text[i] = NUL

\* C14: score_session rejects invalid input before any scoring: an invalid
\* session_id is answered with the error "Invalid session ID" whatever the
\* transcript is, an invalid transcript with an error whatever the
\* session_id is; an error carries no SessionScore and no RuleCheck.
C14_RejectsInvalid ==
    call # None =>
        /\ InvalidSessionId(call.session_id) =>
              outcome = ScoreErr("Invalid session ID")
        /\ InvalidTranscript(call.transcript) =>
              /\ outcome.tag = "Err"
              /\ DOMAIN outcome = {"tag", "msg"}

C14_Witness ==
    /\ call # None
    /\ call.session_id = Str("../etc/passwd")
    /\ call.transcript = TBig
    /\ outcome = ScoreErr("Invalid session ID")

\* C15: score_session never panics: every call returns a SessionScore or an
\* error value, whatever the length, the lines and the characters of its
\* arguments.
C15_NeverPanics ==
    call # None => outcome.tag \in {"Ok", "Err"}

\* The weights of the configured rules and of those reported as passed,
\* added up apart from the scorer.
TotalWeight ==
    Sum([i \in 1..Len(scorer.config.rules) |-> scorer.config.rules[i].weight10])

PassedWeight ==
    Sum([i \in 1..Len(scorer.config.rules) |->
            IF outcome.val.rules[i].passed
            THEN scorer.config.rules[i].weight10 ELSE 0])

C18_Bounded ==
    outcome.tag = "Ok" =>
        /\ outcome.val.score_percentage[1] >= 0
        /\ outcome.val.score_percentage[1]
              <= 100 * outcome.val.score_percentage[2]

\* The configured rules whose pattern Regex::new accepts.
CompiledRules ==
    {i \in 1..Len(scorer.config.rules) :
        regex_new(scorer.config.rules[i].pattern).tag = "Ok"}

PassedChecks ==
    {i \in 1..Len(outcome.val.rules) : outcome.val.rules[i].passed}

\* C19 as stated: passed_rules <= total_rules, passed_rules is the number of
\* RuleChecks with passed = true, and total_rules is the number of rules
\* with a successfully compiled matcher.
C19_TotalIsCompiled ==
    outcome.tag = "Ok" =>
        /\ outcome.val.passed_rules <= outcome.val.total_rules
        /\ outcome.val.passed_rules = Cardinality(PassedChecks)
        /\ outcome.val.total_rules = Cardinality(CompiledRules)

\* C19 amended: passed_rules <= total_rules, passed_rules is the number of
\* RuleChecks with passed = true, and total_rules is the number of configured
\* rules, one RuleCheck each, compiled or not; the rules that passed are
\* among those with a matcher compiled under their id.
C19_TotalIsConfigured ==
    outcome.tag = "Ok" =>
        /\ outcome.val.passed_rules <= outcome.val.total_rules
        /\ outcome.val.passed_rules = Cardinality(PassedChecks)
        /\ outcome.val.total_rules = Len(scorer.config.rules)
        /\ outcome.val.total_rules = Len(outcome.val.rules)
        /\ \A i \in PassedChecks :
              scorer.config.rules[i].id \in DOMAIN scorer.compiled_rules

C19_Witness ==
    /\ outcome.tag = "Ok"
    /\ outcome.val.total_rules = 2
    /\ Cardinality(CompiledRules) = 1
    /\ outcome.val.passed_rules = 1
    /\ outcome.val.rules[1].passed
    /\ 2 \notin CompiledRules

\* C20: the default rule set gives the transcript of the first end-to-end
\* scenario at least 4 passed rules and a score_percentage above 50.
C20_DefaultExample ==
    (call # None /\ scorer = BehaviorScorer_new /\ call.transcript = TExample
        /\ validate_session_id(call.session_id)) =>
        /\ outcome.tag = "Ok"
        /\ outcome.val.total_rules = 8
        /\ outcome.val.passed_rules >= 4
        /\ outcome.val.score_percentage[1]
              > 50 * outcome.val.score_percentage[2]

\* The call has arguments that pass both validations.
ValidCall ==
    /\ call # None
    /\ ~InvalidSessionId(call.session_id)
    /\ validate_session_id(call.session_id)
    /\ ~InvalidTranscript(call.transcript)

\* C21: a rule whose pattern does not compile is isolated: the scorer is
\* constructed, the rule's id is absent from the compiled map, and every call
\* with valid arguments returns a SessionScore whose checks follow the order
\* of the rule definitions, with passed = false for that rule and the match
\* of its own pattern for every other rule.
C21_CompileFailureIsolated ==
    (ValidCall /\ CompiledRules # 1..Len(scorer.config.rules)) =>
        /\ DOMAIN scorer = {"config", "compiled_rules"}
        /\ \A i \in 1..Len(scorer.config.rules) :
              i \notin CompiledRules =>
                  scorer.config.rules[i].id \notin DOMAIN scorer.compiled_rules
        /\ outcome.tag = "Ok"
        /\ Len(outcome.val.rules) = Len(scorer.config.rules)
        /\ \A i \in 1..Len(scorer.config.rules) :
              /\ outcome.val.rules[i].rule_id = scorer.config.rules[i].id
              /\ outcome.val.rules[i].passed =
                    IF i \in CompiledRules
                    THEN is_match(regex_new(scorer.config.rules[i].pattern).val,
                                  call.transcript.text)
                    ELSE FALSE

\* A percentage <<numerator, denominator>> truncated toward zero.
Truncated(p) ==
    CHOOSE n \in -1000..1000 :
        IF p[1] >= 0
        THEN n * p[2] <= p[1] /\ p[1] < (n + 1) * p[2]
        ELSE (n - 1) * p[2] < p[1] /\ p[1] <= n * p[2]

\* C23: the summary is chosen by the band of the score with inclusive lower
\* bounds, 90 and above Excellent, 75 up to 90 Good, 50 up to 75 Moderate,
\* below 50 Needs improvement; it reports the score truncated toward zero and,
\* below the Excellent band, the failed count total_rules - passed_rules.
C23_SummaryBands ==
    outcome.tag = "Ok" =>
        LET p == outcome.val.score_percentage
            pct == ToString(Truncated(p))
            failed == ToString(outcome.val.total_rules - outcome.val.passed_rules)
        IN outcome.val.summary =
              IF p[1] >= 90 * p[2]
              THEN "Excellent adherence (" \o pct \o "%). All critical rules followed."
              ELSE IF p[1] >= 75 * p[2]
              THEN "Good adherence (" \o pct \o "%). " \o failed
                   \o " minor improvements possible."
              ELSE IF p[1] >= 50 * p[2]
              THEN "Moderate adherence (" \o pct \o "%). " \o failed
                   \o " rules need attention."
              ELSE "Needs improvement (" \o pct \o "%). " \o failed
                   \o " critical rules missed."

C23_Witness ==
    /\ outcome.tag = "Ok"
    /\ outcome.val.score_percentage[1] = 50 * outcome.val.score_percentage[2]
    /\ outcome.val.total_rules = 2
    /\ outcome.val.passed_rules = 1
    /\ outcome.val.summary = "Moderate adherence (50%). 1 rules need attention."

\* C24: in every SessionScore returned, a RuleCheck has confidence 1.0 when
\* passed and 0.0 otherwise, the suggestion "Consider: " and the rule's
\* description exactly when failed, no evidence when failed and an evidence
\* excerpt when passed.
C24_RuleCheckFields ==
    outcome.tag = "Ok" =>
        \A i \in 1..Len(outcome.val.rules) :
            LET rc == outcome.val.rules[i]
            IN /\ rc.confidence = IF rc.passed THEN 1 ELSE 0
               /\ rc.suggestion =
                     IF rc.passed THEN None
                     ELSE Some("Consider: " \o scorer.config.rules[i].description)
               /\ ~rc.passed => rc.evidence = None
               /\ rc.passed => rc.evidence.tag = "Some"

(***************************************************************************)
(* Properties of calls sharing a scorer (checked under SpecShared)         *)
(***************************************************************************)

\* Two results of score_session that differ in the timestamp at most.
SameButTimestamp(a, b) ==
    \/ a = b
    \/ /\ a.tag = "Ok"
       /\ b.tag = "Ok"
       /\ [a.val EXCEPT !.timestamp = 0] = [b.val EXCEPT !.timestamp = 0]

C25_ReferentialIntegrity ==
    /\ [](/\ \A r \in db.scores : r.session_id \in db.sessions
          /\ \A r \in db.rule_checks : r.score_id \in {q.id : q \in db.scores})
    /\ [][(db'.last # None /\ db'.last.op = "delete_session") =>
            /\ db'.last.arg \notin db'.sessions
            /\ \A r \in db.scores :
                  r.session_id = db'.last.arg =>
                      /\ r \notin db'.scores
                      /\ \A q \in db.rule_checks :
                            q.score_id = r.id => q \notin db'.rule_checks]_vars
    /\ [][(db'.last # None /\ db'.last.op = "delete_score") =>
            /\ db'.last.arg \notin {r.id : r \in db'.scores}
            /\ \A q \in db.rule_checks :
                  q.score_id = db'.last.arg => q \notin db'.rule_checks]_vars

C25_Witness ==
    /\ db.last = Returned("delete_session", "s1", TRUE)
    /\ db.seq_scores = 2
    /\ db.seq_rule_checks = 2
    /\ db.sessions = {"s2"}
    /\ db.scores = {[id |-> 2, session_id |-> "s2"]}
    /\ db.rule_checks = {[id |-> 2, score_id |-> 2]}

(***************************************************************************)
(* Properties of scan_and_score_directory (checked under SpecScan)         *)
(***************************************************************************)

\* The entries the walk visits that are regular files named *.md or *.json.
Candidates ==
    {i \in 1..Len(scan.walk) :
        /\ scan.walk[i].walk_ok
        /\ scan.walk[i].file_type = "file"
        /\ \E n \in 2..Len(scan.walk[i].file_name) :
              SubSeq(scan.walk[i].file_name, n, Len(scan.walk[i].file_name))
                  \in {Str(".md"), Str(".json")} }

\* Of those, the files of at most 10 MB whose content can be read.
Accepted ==
    {i \in Candidates :
        /\ ~(scan.walk[i].meta_ok /\ scan.walk[i].len > 10 * 1024 * 1024)
        /\ scan.walk[i].read_ok}

\* What score_session answers for the file at position i of the walk.
FileAnswer(i) ==
    score_session(scorer, scan.walk[i].file_name, scan.walk[i].content, 0)

\* C26: a scan of a directory inside the base path never panics and returns
\* Ok; the list returned holds, in the order of the walk, exactly the scores
\* of the accepted files that score_session scored, so that an oversized, an
\* unreadable and a rejected file are skipped.
C26_FailuresIsolated ==
    /\ scan.pc # "panicked"
    /\ (scan.pc = "returned" /\ scan.base_exists /\ scan.place = "inside") =>
          /\ scan.result.tag = "Ok"
          /\ LET scored == {i \in Accepted : FileAnswer(i).tag = "Ok"}
             IN /\ Len(scan.result.val) = Cardinality(scored)
                /\ \A i \in scored :
                      \E j \in 1..Len(scan.result.val) :
                          /\ SameButTimestamp(ScoreOk(scan.result.val[j]), FileAnswer(i))
                          /\ j = Cardinality({k \in scored : k <= i})

C26_Witness ==
    /\ scan.pc = "returned"
    /\ scan.place = "inside"
    /\ Len(scan.walk) = 2
    /\ scan.walk[1].file_name = Str("big.md")
    /\ scan.walk[2].file_name = Str("nul.md")
    /\ FileAnswer(2).tag = "Err"
    /\ scan.result = Ok(<<>>)

\* C27: a scan of a directory inside the base path returns a SessionScore for
\* every regular file within depth 2 named *.md or *.json, of at most 10 MB
\* and of readable content without a null byte, and the session identifier
\* derived from the file name passes validate_session_id.
C27_EveryFileScored ==
    (scan.pc = "returned" /\ scan.base_exists /\ scan.place = "inside") =>
        \A i \in 1..Len(scan.tree) :
            LET f == scan.tree[i]
            IN ( /\ f.walk_ok
                 /\ f.file_type = "file"
                 /\ f.depth <= 2
                 /\ extension(f.file_name) \in {Some(Str("md")), Some(Str("json"))}
                 /\ f.len <= 10 * 1024 * 1024
                 /\ f.read_ok
                 /\ \A n \in 1..Len(f.content.text) : f.content.text[n] # NUL ) =>
                    /\ validate_session_id(f.file_name)
                    /\ scan.result.tag = "Ok"
                    /\ \E j \in 1..Len(scan.result.val) :
                          scan.result.val[j].session_id = f.file_name

(***************************************************************************)
(* Properties of score_session_with_retry (checked under SpecScoreRetry)   *)
(***************************************************************************)

\* What score_session answers the arguments of the call.
Answer == score_session(scorer, call.session_id, call.transcript, 0)

\* C16: a call whose arguments score_session rejects is never retried:
\* score_session is invoked once, no sleep happens, and the call returns
\* Permanent carrying the validation message.
C16_InvalidNotRetried ==
    Answer.tag = "Err" =>
        /\ sleeps = <<>>
        /\ retry_pc \in {"loop", "done"}
        /\ retry_pc = "loop" => invocations = <<>> /\ attempts = 0
        /\ retry_pc = "done" =>
              /\ attempts = 1
              /\ invocations = <<Permanent(Answer.msg)>>
              /\ retry_result = Permanent(Answer.msg)
              /\ Answer.msg \in {"Invalid session ID",
                                 "Transcript exceeds maximum size of 10MB",
                                 "Transcript contains invalid characters"}

C16_Witness ==
    /\ retry_pc = "done"
    /\ call.session_id = Str("a/b")
    /\ call.transcript = TGood
    /\ attempts = 1
    /\ Len(invocations) = 1
    /\ sleeps = <<>>
    /\ retry_result = Permanent("Invalid session ID")

(***************************************************************************)
(* Properties of score_sessions_batch against the engine (SpecBatch)       *)
(***************************************************************************)

\* C28: every Ok element of the list a batch returns equals, the timestamp
\* apart, what score_session answers the (session_id, transcript) pair
\* behind it, whether the element was evaluated or served from the cache.
C28_BatchMatchesEngine ==
    batch_pc = "returned" =>
        \A j \in 1..Len(results) :
            results[j].tag = "Ok" =>
                SameButTimestamp(results[j],
                    score_session(scorer, sessions[origin[j]].session_id,
                                  sessions[origin[j]].transcript, 0))

\* The inputs of the batch the engine was invoked for under session_id k.
EvaluatedFor(k) ==
    {j \in 1..Len(finished) : sessions[finished[j].task].session_id = k}

\* C29: within one batch the engine is invoked at most once per session_id:
\* of the inputs sharing a session_id that is not cached at the start, one
\* is evaluated and the later ones are cache hits.
C29_OncePerSessionId ==
    /\ \A k \in BatchKeys : Cardinality(EvaluatedFor(k)) <= 1
    /\ \A i, j \in 1..Len(sessions) :
          (i < j /\ i \in spawned /\ idx > j
              /\ sessions[i].session_id = sessions[j].session_id)
            => j \in hit

(***************************************************************************)
(* Termination of retry_with_backoff (checked under SpecRetryLive)         *)
(***************************************************************************)

\* max(1, max_attempts)
AtLeastOne(n) == IF n < 1 THEN 1 ELSE n

\* C30: for every RetryConfig, max_attempts = 0 included, a call whose
\* invocations and sleeps all return does return, with Ok, Permanent or
\* MaxRetriesExceeded; the operation is invoked at least once and at most
\* max(1, max_attempts) times; a sleep follows every attempt but the last,
\* and a call that returned takes no further step.
C30_Terminates ==
    /\ <>(retry_pc = "done")
    /\ [](Len(invocations) <= AtLeastOne(config.max_attempts))
    /\ [](retry_pc = "done" =>
            /\ retry_result.tag \in {"Ok", "Permanent", "MaxRetriesExceeded"}
            /\ Len(invocations) >= 1
            /\ Len(sleeps) = Len(invocations) - 1)
    /\ [][retry_pc = "done" => UNCHANGED retry_vars]_vars

C30_Witness ==
    /\ retry_pc = "done"
    /\ config.max_attempts = 0
    /\ invocations = <<Transient("timeout")>>
    /\ sleeps = <<>>
    /\ retry_result = MaxRetriesExceeded("Transient error: timeout")

====
